---- MODULE Spec2Model ----
(***************************************************************************)
(* Model of parameter.go of go-xmlrpc: the resolver getParam that turns a  *)
(* go/types variable into a tree of Param nodes, and the FromEtree/ToEtree *)
(* methods of the six Param implementations, which emit the decode and     *)
(* encode fragments of the generated code.                                 *)
(*                                                                         *)
(* A fragment is modelled as the sequence of statements its template       *)
(* renders to; every statement is a record of one fixed schema (Stmt).     *)
(***************************************************************************)
EXTENDS Integers, Sequences, FiniteSets, TLC

VARIABLES variable, pc, node, exitMsg, built, variableNameCounter, calls

vars == <<variable, pc, node, exitMsg, built, variableNameCounter, calls>>

(***************************************************************************)
(* Bounds.                                                                 *)
(***************************************************************************)
\* number of go/types type nodes of a composite input type
MaxNodes == 3
\* number of fields of a struct type
MaxFields == 2
\* number of FromEtree/ToEtree calls made on the resolved root node
MaxCalls == 2

(***************************************************************************)
(* strconv.Itoa                                                            *)
(***************************************************************************)
Digits == <<"0", "1", "2", "3", "4", "5", "6", "7", "8", "9">>

RECURSIVE ItoaNat(_)
ItoaNat(n) ==
    IF n < 10 THEN Digits[n + 1] ELSE ItoaNat(n \div 10) \o Digits[(n % 10) + 1]

Itoa(n) == IF n < 0 THEN "-" \o ItoaNat(0 - n) ELSE ItoaNat(n)

(***************************************************************************)
(* go/types values: a type is [kind, name, elems]; elems are the fields of *)
(* a struct (variables) or the single element of a slice or an array.      *)
(***************************************************************************)
Basic(n) == [kind |-> "basic", name |-> n, elems |-> <<>>]
Named(n) == [kind |-> "named", name |-> n, elems |-> <<>>]
MapType == [kind |-> "map", name |-> "map[string]int", elems |-> <<>>]
Var(n, t) == [name |-> n, type |-> t]
SliceOf(t) == [kind |-> "slice", name |-> "", elems |-> <<Var("", t)>>]
ArrayOf(t) == [kind |-> "array", name |-> "", elems |-> <<Var("", t)>>]
StructOf(fields) == [kind |-> "struct", name |-> "", elems |-> fields]

SignedKinds == {"int", "int8", "int16", "int32", "int64"}
UnsignedKinds == {"uint", "uint8", "uint16", "uint32", "uint64"}

\* field names by position; declaration order is not the alphabetical order
FieldNames == <<"B", "A", "D", "C">>

\* types.Type.String()
RECURSIVE TypeString(_)
RECURSIVE FieldsString(_, _)
FieldsString(fields, i) ==
    IF i > Len(fields) THEN ""
    ELSE (IF i > 1 THEN "; " ELSE "")
         \o fields[i].name \o " " \o TypeString(fields[i].type)
         \o FieldsString(fields, i + 1)

TypeString(t) ==
    CASE t.kind = "struct" -> "struct{" \o FieldsString(t.elems, 1) \o "}"
      [] t.kind = "slice" -> "[]" \o TypeString(t.elems[1].type)
      [] t.kind = "array" -> "[2]" \o TypeString(t.elems[1].type)
      [] OTHER -> t.name

\* the input types: every leaf at the top level, and the composite types of
\* at most MaxNodes type nodes over the leaves NestedLeaves
TopLeaves ==
    {Basic(k) : k \in SignedKinds \cup UnsignedKinds \cup {"string", "bool", "float64"}}
    \cup {Named("error"), Named("pkg.Widget"), MapType}

NestedLeaves == {Basic("int32"), Basic("string"), Basic("bool"), Named("error")}

RECURSIVE TypesOfSize(_)
RECURSIVE TypeSeqs(_, _)
TypeSeqs(m, l) ==
    IF l = 0 THEN (IF m = 0 THEN {<<>>} ELSE {})
    ELSE UNION {{<<t>> \o s : t \in TypesOfSize(k), s \in TypeSeqs(m - k, l - 1)} :
                k \in 1..m}

WithNames(ts) == [i \in 1..Len(ts) |-> Var(FieldNames[i], ts[i])]

TypesOfSize(n) ==
    IF n = 1 THEN NestedLeaves \cup {StructOf(<<>>)}
    ELSE {SliceOf(t) : t \in TypesOfSize(n - 1)}
         \cup {ArrayOf(t) : t \in TypesOfSize(n - 1)}
         \cup {StructOf(WithNames(ts)) :
                ts \in UNION {TypeSeqs(n - 1, l) : l \in 1..MaxFields}}

InputTypes == TopLeaves \cup UNION {TypesOfSize(n) : n \in 1..MaxNodes}

(***************************************************************************)
(* Param nodes.                                                            *)
(***************************************************************************)
NoNode == [kind |-> "nil"]

\* Exit reports the message and terminates the process: no value is
\* returned to the caller and nothing runs after it.
Exit(msg) == [exited |-> TRUE, msg |-> msg, node |-> NoNode, built |-> <<>>]

Returned(n, b) == [exited |-> FALSE, msg |-> "", node |-> n, built |-> b]

newBoolParam(name) == [kind |-> "bool", name |-> name]

newIntParam(name, bitSize, unsigned) ==
    [kind |-> "int", name |-> name, bitSize |-> bitSize, unsigned |-> unsigned,
     typ |-> ""]

newStringParam(name) == [kind |-> "string", name |-> name]

newErrorParam(name) == [kind |-> "error", name |-> name, typ |-> "error"]

newSliceParam(name, typ, obj) ==
    [kind |-> "slice", name |-> name, typ |-> typ, object |-> obj]

\* the inner switch of getParam over the integer kinds
BitSizeOf(k) ==
    CASE k = "int8" -> 8
      [] k = "int16" -> 16
      [] k = "int32" -> 32
      [] k = "int64" -> 64
      [] OTHER -> 0

RECURSIVE getParam(_)
RECURSIVE structFields(_, _, _)

\* a loop that puts every new child in front of the ones before it
structFieldsReversed(fields, i, acc) ==
    IF i > Len(fields) THEN acc
    ELSE LET r == getParam(fields[i])
         IN IF r.exited
            THEN [exited |-> TRUE, msg |-> r.msg, node |-> NoNode,
                  built |-> acc.built \o r.built]
            ELSE structFields(fields, i + 1,
                    [acc EXCEPT !.node.params = <<r.node>> \o @,
                                !.built = @ \o r.built])

\* the loop of newStructParam: acc is the result so far; an Exit in a field
\* ends the process with the struct node half built
structFields(fields, i, acc) ==
    IF i > Len(fields) THEN acc
    ELSE LET r == getParam(fields[i])
         IN IF r.exited
            THEN [exited |-> TRUE, msg |-> r.msg, node |-> NoNode,
                  built |-> acc.built \o r.built]
            ELSE structFields(fields, i + 1,
                    [acc EXCEPT !.node.params = Append(@, r.node),
                                !.built = @ \o r.built])

newStructParam(v) ==
    structFields(v.type.elems, 1,
        Returned([kind |-> "struct", name |-> v.name, typ |-> TypeString(v.type),
                  params |-> <<>>],
                 <<v.type.kind>>))

\* the final Exit of getParam, reached when no case has returned
getParamUnsupported(v) == Exit("not supported param: " \o TypeString(v.type))

\* case *types.Basic
getParamBasic(v) ==
    LET x == v.type
    IN IF x.name \in SignedKinds
       THEN Returned(newIntParam(v.name, BitSizeOf(x.name), FALSE), <<x.kind>>)
       ELSE IF x.name = "string"
       THEN Returned(newStringParam(v.name), <<x.kind>>)
       ELSE IF x.name = "bool"
       THEN Returned(newBoolParam(v.name), <<x.kind>>)
       ELSE getParamUnsupported(v)

\* case *types.Slice
getParamSlice(v) ==
    LET x == v.type
        r == getParam(Var(v.name, x.elems[1].type))
    IN IF r.exited THEN r
       ELSE Returned(newSliceParam(v.name, TypeString(x.elems[1].type), r.node),
                     r.built \o <<x.kind>>)

\* an array resolved the way a slice is
getParamArrayAsSlice(v) == getParamSlice(v)

\* case *types.Array
getParamArray(v) == Exit("array")

\* case *types.Named
getParamNamed(v) ==
    IF TypeString(v.type) = "error"
    THEN Returned(newErrorParam("err"), <<v.type.kind>>)
    ELSE Exit("No support for named parameters. use inline definitions.")

getParam(v) ==
    CASE v.type.kind = "basic" -> getParamBasic(v)
      [] v.type.kind = "struct" -> newStructParam(v)
      [] v.type.kind = "array" -> getParamArray(v)
      [] v.type.kind = "slice" -> getParamSlice(v)
      [] v.type.kind = "named" -> getParamNamed(v)
      [] OTHER -> getParamUnsupported(v)

(***************************************************************************)
(* Unique name allocator: the process-wide counter variableNameCounter is  *)
(* incremented by every call and the new value is formatted after the      *)
(* prefix.  prefix is the (possibly empty) list of prefix arguments.       *)
(***************************************************************************)
\* an allocator that forgets to store the incremented counter
GenerateVariableNameStuck(prefix, counter) ==
    [name |-> (IF prefix = <<>> THEN "var" ELSE prefix[1]) \o "_" \o Itoa(counter + 1),
     counter |-> counter]

GenerateVariableName(prefix, counter) ==
    [name |-> (IF prefix = <<>> THEN "var" ELSE prefix[1]) \o "_" \o Itoa(counter + 1),
     counter |-> counter + 1]

(***************************************************************************)
(* Statements of the generated code.  One schema for all of them:          *)
(*   op    the statement                                                   *)
(*   dst   identifier declared or assigned                                 *)
(*   aux   second identifier declared (the ok variable of a type cast)     *)
(*   src   identifier read (wire element, value variable)                  *)
(*   err   identifier the failure path assigns the error to ("" if none)   *)
(*   exit  the statement that leaves the function on the failure path      *)
(*   lit   literal text (type label, function name, field name)            *)
(*   key   the quoted name handed to an extraction function                *)
(*   tags  wire tags created (CreateElement chain) or path segments looked *)
(*         up (FindElement/FindElements)                                   *)
(*   text  text or value expression                                        *)
(*   body  nested statements; cases: the cases of a switch                 *)
(***************************************************************************)
NoText == [kind |-> "none", v |-> "", n |-> 0]
StrLit(s) == [kind |-> "lit", v |-> s, n |-> 0]
IntLit(k) == [kind |-> "int", v |-> "", n |-> k]
VarText(x) == [kind |-> "var", v |-> x, n |-> 0]
ItoaOf(x) == [kind |-> "itoa", v |-> x, n |-> 0]
ErrorOf(x) == [kind |-> "error", v |-> x, n |-> 0]
CodeOf(x) == [kind |-> "code", v |-> x, n |-> 0]

Stmt == [op |-> "", dst |-> "", aux |-> "", src |-> "", err |-> "", exit |-> "",
         lit |-> "", key |-> "", tags |-> <<>>, text |-> NoText,
         body |-> <<>>, cases |-> <<>>]

\* var dst typ
VarDecl(dst, typ) == [Stmt EXCEPT !.op = "var", !.dst = dst, !.lit = typ]
\* dst := typ{}
Compose(dst, typ) == [Stmt EXCEPT !.op = "compose", !.dst = dst, !.lit = typ]
\* if dst, err = xmlrpc.fn(src, "key"); err != nil { return }
Extract(fn, dst, err, src, key) ==
    [Stmt EXCEPT !.op = "extract", !.lit = fn, !.dst = dst, !.err = err,
                 !.src = src, !.key = key, !.exit = "return"]
\* for _, dst := range src.FindElements("path") { body }
RangeFind(dst, src, path, body) ==
    [Stmt EXCEPT !.op = "rangefind", !.dst = dst, !.src = src, !.tags = path,
                 !.body = body]
\* if dst = src.FindElement("tag"); dst == nil { return errors.New(...) }
Find(dst, src, tag) ==
    [Stmt EXCEPT !.op = "find", !.dst = dst, !.src = src, !.tags = <<tag>>,
                 !.exit = "return errors.New(\"no name provided\")"]
\* dst := src.Text()
TextOf(dst, src) == [Stmt EXCEPT !.op = "textof", !.dst = dst, !.src = src]
\* switch src { cases }
Switch(src, cases) == [Stmt EXCEPT !.op = "switch", !.src = src, !.cases = cases]
\* dst.field = src
SetField(dst, field, src) ==
    [Stmt EXCEPT !.op = "setfield", !.dst = dst, !.lit = field, !.src = src]
\* dst = append(dst, src)
AppendTo(dst, src) == [Stmt EXCEPT !.op = "append", !.dst = dst, !.src = src]
\* dst := src.CreateElement(tags[1])...CreateElement(tags[n]) [.SetText(text)]
Create(dst, src, tags, text) ==
    [Stmt EXCEPT !.op = "create", !.dst = dst, !.src = src, !.tags = tags,
                 !.text = text]
\* dst := text
Define(dst, text) == [Stmt EXCEPT !.op = "define", !.dst = dst, !.text = text]
\* dst = text
Assign(dst, text) == [Stmt EXCEPT !.op = "assign", !.dst = dst, !.text = text]
\* if src { body }
If(src, body) == [Stmt EXCEPT !.op = "if", !.src = src, !.body = body]
\* if dst, aux := src.(xmlrpc.Error); aux { body }
IfCast(dst, aux, src, body) ==
    [Stmt EXCEPT !.op = "ifcast", !.dst = dst, !.aux = aux, !.src = src,
                 !.body = body]
\* dst := src.field
FieldOf(dst, src, field) ==
    [Stmt EXCEPT !.op = "field", !.dst = dst, !.src = src, !.lit = field]
\* for _, dst := range src { body }
RangeOver(dst, src, body) ==
    [Stmt EXCEPT !.op = "range", !.dst = dst, !.src = src, !.body = body]

\* what an emitting method hands back: the fragment, the allocator's counter
\* after the call and the identifiers the call obtained, in order
Emitted(frag, counter, names) == [frag |-> frag, counter |-> counter, names |-> names]

(***************************************************************************)
(* Name() and Type() of the Param implementations.                         *)
(***************************************************************************)
Name(p) == p.name

intParamType(i) ==
    (IF i.unsigned THEN "u" ELSE "") \o "int"
    \o (IF i.bitSize > 0 THEN Itoa(i.bitSize) ELSE "")

sliceParamType(p) == "[]" \o p.typ

Type(p) ==
    CASE p.kind = "bool" -> "bool"
      [] p.kind = "int" -> intParamType(p)
      [] p.kind = "string" -> "string"
      [] p.kind = "slice" -> sliceParamType(p)
      [] OTHER -> p.typ

getParseFunc(i) == "XPathValueGetInt"

(***************************************************************************)
(* FromEtree: the decode fragments.                                        *)
(***************************************************************************)
boolParamFromEtree(p, element, resultvar, errvar, counter) ==
    Emitted(<<VarDecl(resultvar, Type(p)),
              Extract("XPathValueGetBool", resultvar, errvar, element, p.name)>>,
            counter, <<>>)

intParamFromEtree(i, element, resultvar, errvar, counter) ==
    Emitted(<<VarDecl(resultvar, Type(i)),
              Extract(getParseFunc(i), resultvar, errvar, element, Name(i))>>,
            counter, <<>>)

stringParamFromEtree(p, element, resultvar, errvar, counter) ==
    Emitted(<<VarDecl(resultvar, Type(p)),
              Extract("XPathValueGetString", resultvar, errvar, element, p.name)>>,
            counter, <<>>)

errorParamFromEtree(p, element, resultvar, errvar, counter) ==
    Emitted(<<>>, counter, <<>>)

RECURSIVE FromEtree(_, _, _, _, _)
RECURSIVE structParamCases(_, _, _, _, _)

\* the range over .Params of the struct template: one case per param
structParamCases(params, i, valueVar, resultvar, acc) ==
    IF i > Len(params) THEN acc
    ELSE LET param == params[i]
             paramTmp == GenerateVariableName(<<>>, acc.counter)
             child == FromEtree(param, valueVar, paramTmp.name, "err", paramTmp.counter)
             case == [label |-> Name(param),
                      body |-> child.frag
                               \o <<SetField(resultvar, Name(param), paramTmp.name)>>]
         IN structParamCases(params, i + 1, valueVar, resultvar,
                Emitted(Append(acc.frag, case), child.counter,
                        acc.names \o <<paramTmp.name>> \o child.names))

structParamFromEtree(p, element, resultvar, errvar, counter) ==
    LET temp == GenerateVariableName(<<"name_elem">>, counter)
        nameVar == GenerateVariableName(<<"name">>, temp.counter)
        valueVar == GenerateVariableName(<<"value">>, nameVar.counter)
        cs == structParamCases(p.params, 1, valueVar.name, resultvar,
                  Emitted(<<>>, valueVar.counter,
                          <<temp.name, nameVar.name, valueVar.name>>))
    IN Emitted(<<Compose(resultvar, Type(p)),
                 RangeFind("member", element, <<"struct", "members">>,
                     <<VarDecl(temp.name, "*etree.Element"),
                       Find(temp.name, "member", "name"),
                       TextOf(nameVar.name, temp.name),
                       VarDecl(valueVar.name, "*etree.Element"),
                       Find(valueVar.name, "member", "value"),
                       Switch(nameVar.name, cs.frag)>>)>>,
               cs.counter, cs.names)

sliceParamFromEtree(p, element, resultvar, errvar, counter) ==
    LET memberVar == GenerateVariableName(<<"member">>, counter)
        targetName == GenerateVariableName(<<"value">>, memberVar.counter)
        child == FromEtree(p.object, memberVar.name, targetName.name, errvar,
                           targetName.counter)
    IN Emitted(<<Compose(resultvar, "[]" \o Type(p)),
                 RangeFind(memberVar.name, element, <<"array", "data", "value">>,
                     child.frag \o <<AppendTo(resultvar, targetName.name)>>)>>,
               child.counter,
               <<memberVar.name, targetName.name>> \o child.names)

FromEtree(p, element, resultvar, errvar, counter) ==
    CASE p.kind = "bool" -> boolParamFromEtree(p, element, resultvar, errvar, counter)
      [] p.kind = "int" -> intParamFromEtree(p, element, resultvar, errvar, counter)
      [] p.kind = "string" -> stringParamFromEtree(p, element, resultvar, errvar, counter)
      [] p.kind = "struct" -> structParamFromEtree(p, element, resultvar, errvar, counter)
      [] p.kind = "slice" -> sliceParamFromEtree(p, element, resultvar, errvar, counter)
      [] p.kind = "error" -> errorParamFromEtree(p, element, resultvar, errvar, counter)

(***************************************************************************)
(* ToEtree: the encode fragments.  The bindings of a template are          *)
(* evaluated, in source order, before the template is rendered.            *)
(***************************************************************************)
DefaultFaultCode == 500

boolParamToEtree(p, element, resultvar, errvar, counter) ==
    LET Temp == GenerateVariableName(<<"boolstr">>, counter)
    IN Emitted(<<Define(Temp.name, StrLit("0")),
                 If(resultvar, <<Assign(Temp.name, StrLit("1"))>>),
                 Create("", element, <<"boolean">>, VarText(Temp.name))>>,
               Temp.counter, <<Temp.name>>)

intParamToEtree(i, element, resultvar, errvar, counter) ==
    Emitted(<<Create("", element, <<"int">>, ItoaOf(resultvar))>>, counter, <<>>)

stringParamToEtree(p, element, resultvar, errvar, counter) ==
    LET Temp == GenerateVariableName(<<"">>, counter)
    IN Emitted(<<Create("", element, <<"string">>, VarText(resultvar))>>,
               Temp.counter, <<Temp.name>>)

\* the two members of the fault struct in the other order
errorParamToEtreeSwapped(p, element, resultvar, errvar, counter) ==
    LET CastVar == GenerateVariableName(<<"code">>, counter)
        StructVar == GenerateVariableName(<<"struct">>, CastVar.counter)
        OkVar == GenerateVariableName(<<"ok">>, StructVar.counter)
        ErrorCode == GenerateVariableName(<<"code">>, OkVar.counter)
        Fault == GenerateVariableName(<<"fault">>, ErrorCode.counter)
        member1 == GenerateVariableName(<<"member">>, Fault.counter)
        member2 == GenerateVariableName(<<"member">>, member1.counter)
    IN Emitted(<<Create(Fault.name, element, <<"fault">>, NoText),
                 Define(ErrorCode.name, IntLit(DefaultFaultCode)),
                 IfCast(CastVar.name, OkVar.name, resultvar,
                        <<Assign(ErrorCode.name, CodeOf(CastVar.name))>>),
                 Create(StructVar.name, Fault.name, <<"value", "struct">>, NoText),
                 Create(member1.name, StructVar.name, <<"member">>, NoText),
                 Create("", member1.name, <<"name">>, StrLit("faultString")),
                 Create("", member1.name, <<"value", "string">>, ErrorOf(resultvar)),
                 Create(member2.name, StructVar.name, <<"member">>, NoText),
                 Create("", member2.name, <<"name">>, StrLit("faultCode")),
                 Create("", member2.name, <<"value", "int">>, ItoaOf(ErrorCode.name))>>,
               member2.counter,
               <<CastVar.name, StructVar.name, OkVar.name, ErrorCode.name,
                 Fault.name, member1.name, member2.name>>)

errorParamToEtree(p, element, resultvar, errvar, counter) ==
    LET CastVar == GenerateVariableName(<<"code">>, counter)
        StructVar == GenerateVariableName(<<"struct">>, CastVar.counter)
        OkVar == GenerateVariableName(<<"ok">>, StructVar.counter)
        ErrorCode == GenerateVariableName(<<"code">>, OkVar.counter)
        Fault == GenerateVariableName(<<"fault">>, ErrorCode.counter)
        member1 == GenerateVariableName(<<"member">>, Fault.counter)
        member2 == GenerateVariableName(<<"member">>, member1.counter)
    IN Emitted(<<Create(Fault.name, element, <<"fault">>, NoText),
                 Define(ErrorCode.name, IntLit(DefaultFaultCode)),
                 IfCast(CastVar.name, OkVar.name, resultvar,
                        <<Assign(ErrorCode.name, CodeOf(CastVar.name))>>),
                 Create(StructVar.name, Fault.name, <<"value", "struct">>, NoText),
                 Create(member1.name, StructVar.name, <<"member">>, NoText),
                 Create("", member1.name, <<"name">>, StrLit("faultCode")),
                 Create("", member1.name, <<"value", "int">>, ItoaOf(ErrorCode.name)),
                 Create(member2.name, StructVar.name, <<"member">>, NoText),
                 Create("", member2.name, <<"name">>, StrLit("faultString")),
                 Create("", member2.name, <<"value", "string">>, ErrorOf(resultvar))>>,
               member2.counter,
               <<CastVar.name, StructVar.name, OkVar.name, ErrorCode.name,
                 Fault.name, member1.name, member2.name>>)

RECURSIVE ToEtree(_, _, _, _, _)
RECURSIVE structParamMembers(_, _, _, _, _, _)

\* the range over .Params of the struct template: one member per param
structParamMembers(params, i, StructVar, resultvar, errvar, acc) ==
    IF i > Len(params) THEN acc
    ELSE LET param == params[i]
             MemberVar == GenerateVariableName(<<"member">>, acc.counter)
             TempValueVar == GenerateVariableName(<<"value">>, MemberVar.counter)
             StructItemVar == GenerateVariableName(<<"struct_var">>, TempValueVar.counter)
             child == ToEtree(param, TempValueVar.name, StructItemVar.name, errvar,
                              StructItemVar.counter)
         IN structParamMembers(params, i + 1, StructVar, resultvar, errvar,
                Emitted(acc.frag
                        \o <<Create(MemberVar.name, StructVar, <<"member">>, NoText),
                             Create("", MemberVar.name, <<"name">>, StrLit(Name(param))),
                             Create(TempValueVar.name, MemberVar.name, <<"value">>, NoText),
                             FieldOf(StructItemVar.name, resultvar, Name(param))>>
                        \o child.frag,
                        child.counter,
                        acc.names
                        \o <<MemberVar.name, TempValueVar.name, StructItemVar.name>>
                        \o child.names))

structParamToEtree(p, element, resultvar, errvar, counter) ==
    LET StructVar == GenerateVariableName(<<"struct">>, counter)
    IN structParamMembers(p.params, 1, StructVar.name, resultvar, errvar,
           Emitted(<<Create(StructVar.name, element, <<"struct">>, NoText)>>,
                   StructVar.counter, <<StructVar.name>>))

sliceParamToEtree(p, element, resultvar, errvar, counter) ==
    LET Temp == GenerateVariableName(<<"array_data">>, counter)
        TempItem == GenerateVariableName(<<"item">>, Temp.counter)
        TempValueVar == GenerateVariableName(<<"value">>, TempItem.counter)
        child == ToEtree(p.object, TempValueVar.name, TempItem.name, errvar,
                         TempValueVar.counter)
    IN Emitted(<<Create(Temp.name, element, <<"array", "data">>, NoText),
                 RangeOver(TempItem.name, resultvar,
                     <<Create(TempValueVar.name, Temp.name, <<"value">>, NoText)>>
                     \o child.frag)>>,
               child.counter,
               <<Temp.name, TempItem.name, TempValueVar.name>> \o child.names)

ToEtree(p, element, resultvar, errvar, counter) ==
    CASE p.kind = "bool" -> boolParamToEtree(p, element, resultvar, errvar, counter)
      [] p.kind = "int" -> intParamToEtree(p, element, resultvar, errvar, counter)
      [] p.kind = "string" -> stringParamToEtree(p, element, resultvar, errvar, counter)
      [] p.kind = "struct" -> structParamToEtree(p, element, resultvar, errvar, counter)
      [] p.kind = "slice" -> sliceParamToEtree(p, element, resultvar, errvar, counter)
      [] p.kind = "error" -> errorParamToEtree(p, element, resultvar, errvar, counter)

(***************************************************************************)
(* Running an encode fragment.  The wire document is the sequence of the   *)
(* elements created so far, each [parent, tag, text]; an element is named  *)
(* by its index and 0 names the element the fragment was given.  env maps  *)
(* the identifiers of the generated code to their values.                  *)
(***************************************************************************)
EvalText(t, env) ==
    CASE t.kind = "lit" -> t.v
      [] t.kind = "int" -> t.n
      [] t.kind = "var" -> env[t.v]
      [] t.kind = "itoa" -> Itoa(env[t.v])
      [] t.kind = "error" -> env[t.v].text
      [] t.kind = "code" -> env[t.v].code
      [] OTHER -> ""

Bind(name, val, env) == IF name = "" THEN env ELSE (name :> val) @@ env

\* parent.CreateElement(tags[1])...CreateElement(tags[n]); the text goes to
\* the last element
RECURSIVE CreateChain(_, _, _, _)
CreateChain(doc, parent, tags, text) ==
    IF tags = <<>> THEN [doc |-> doc, last |-> parent]
    ELSE CreateChain(Append(doc, [parent |-> parent, tag |-> Head(tags),
                                  text |-> IF Len(tags) = 1 THEN text ELSE ""]),
                     Len(doc) + 1, Tail(tags), text)

\* the identifiers a statement reads
Reads(s) ==
    ({s.src} \cup (IF s.text.kind \in {"var", "itoa", "error", "code"}
                   THEN {s.text.v} ELSE {})) \ {""}

RECURSIVE Exec(_, _)
RECURSIVE ExecStmt(_, _)
RECURSIVE ExecRange(_, _, _, _)

\* the statements run in order; a statement that reads an identifier which
\* is not declared, or a field the value does not have, stops the run with
\* ok = FALSE (such code does not compile)
ExecRange(s, items, i, st) ==
    IF i > Len(items) THEN st
    ELSE LET next == Exec(s.body, [st EXCEPT !.env = Bind(s.dst, items[i], @)])
         IN IF ~next.ok THEN next ELSE ExecRange(s, items, i + 1, next)

ExecStmt(s, st) ==
    IF ~(Reads(s) \subseteq DOMAIN st.env) THEN [st EXCEPT !.ok = FALSE]
    ELSE CASE s.op = "create" ->
            LET c == CreateChain(st.doc, st.env[s.src], s.tags, EvalText(s.text, st.env))
            IN [st EXCEPT !.env = Bind(s.dst, c.last, @), !.doc = c.doc]
      [] s.op \in {"define", "assign"} ->
            [st EXCEPT !.env = Bind(s.dst, EvalText(s.text, st.env), @)]
      [] s.op = "if" -> IF st.env[s.src] THEN Exec(s.body, st) ELSE st
      [] s.op = "ifcast" ->
            IF st.env[s.src].hasCode
            THEN Exec(s.body, [st EXCEPT !.env = Bind(s.dst, st.env[s.src],
                                                      Bind(s.aux, TRUE, @))])
            ELSE st
      [] s.op = "field" ->
            IF s.lit \in DOMAIN st.env[s.src]
            THEN [st EXCEPT !.env = Bind(s.dst, st.env[s.src][s.lit], @)]
            ELSE [st EXCEPT !.ok = FALSE]
      [] s.op = "range" -> ExecRange(s, st.env[s.src], 1, st)
      [] OTHER -> st

Exec(frag, st) ==
    IF frag = <<>> THEN st
    ELSE LET next == ExecStmt(Head(frag), st)
         IN IF ~next.ok THEN next ELSE Exec(Tail(frag), next)

\* the run of a logged ToEtree call's fragment on the value val, and the
\* document it builds
Run(call, val) ==
    Exec(call.frag,
         [env |-> (call.resultvar :> val) @@ (call.element :> 0), doc |-> <<>>,
          ok |-> TRUE])

Encode(call, val) == Run(call, val).doc

\* the children of element id, in document order
Children(doc, id) ==
    SelectSeq([i \in 1..Len(doc) |-> i], LAMBDA i : doc[i].parent = id)

\* id.FindElements(path): the elements under id along the tags of path
RECURSIVE FindElements(_, _, _)
RECURSIVE FindIn(_, _, _, _)
FindIn(doc, ids, i, path) ==
    IF i > Len(ids) THEN <<>>
    ELSE FindElements(doc, ids[i], path) \o FindIn(doc, ids, i + 1, path)

FindElements(doc, id, path) ==
    IF path = <<>> THEN <<id>>
    ELSE FindIn(doc,
                SelectSeq(Children(doc, id), LAMBDA c : doc[c].tag = Head(path)),
                1, Tail(path))

\* a value the node's encode fragment can be run on: the value of the field
\* a child was built from is stored under the name the fragment reads it by,
\* Name(child); seed makes the values of different fields differ
RECURSIVE SampleValue(_, _)
SampleValue(p, seed) ==
    CASE p.kind = "bool" -> (seed % 2 = 1)
      [] p.kind = "int" -> seed
      [] p.kind = "string" -> "s" \o Itoa(seed)
      [] p.kind = "error" ->
            [hasCode |-> (seed % 2 = 1), code |-> 400 + seed, text |-> "not found"]
      [] p.kind = "slice" ->
            <<SampleValue(p.object, seed + 1), SampleValue(p.object, seed + 2)>>
      [] p.kind = "struct" ->
            [n \in {p.params[i].name : i \in 1..Len(p.params)} |->
                LET i == CHOOSE k \in 1..Len(p.params) : p.params[k].name = n
                IN SampleValue(p.params[i], seed + i)]

Seeds == {0, 1}

(***************************************************************************)
(* State machine.                                                          *)
(***************************************************************************)
Init ==
    /\ variable \in {Var("arg", t) : t \in InputTypes}
    /\ pc = "start"
    /\ node = NoNode
    /\ exitMsg = ""
    /\ built = <<>>
    /\ variableNameCounter = 0
    /\ calls = <<>>

\* getParam(variable) returns the root node
Resolve ==
    /\ pc = "start"
    /\ LET r == getParam(variable)
       IN /\ ~r.exited
          /\ pc' = "resolved"
          /\ node' = r.node
          /\ built' = r.built
    /\ UNCHANGED <<variable, exitMsg, variableNameCounter, calls>>

\* getParam(variable) reaches Exit
ResolveExit ==
    /\ pc = "start"
    /\ LET r == getParam(variable)
       IN /\ r.exited
          /\ pc' = "exited"
          /\ exitMsg' = r.msg
          /\ built' = r.built
    /\ UNCHANGED <<variable, node, variableNameCounter, calls>>

\* arguments the generator's callers pass
ElementArgs == {"root"}
ResultArgs == {"result"}
ErrArgs == {"err", "fault"}

Call(method, element, resultvar, errvar, r) ==
    [method |-> method, element |-> element, resultvar |-> resultvar,
     errvar |-> errvar, frag |-> r.frag, names |-> r.names]

\* a FromEtree whose Type() stores the label it built in the slice node
CallFromEtreeMutating ==
    /\ pc = "resolved"
    /\ Len(calls) < MaxCalls
    /\ \E element \in ElementArgs, resultvar \in ResultArgs, errvar \in ErrArgs :
         LET r == FromEtree(node, element, resultvar, errvar, variableNameCounter)
         IN /\ calls' = Append(calls, Call("FromEtree", element, resultvar, errvar, r))
            /\ variableNameCounter' = r.counter
    /\ node' = IF node.kind = "slice" THEN [node EXCEPT !.typ = "[]" \o @] ELSE node
    /\ UNCHANGED <<variable, pc, exitMsg, built>>

\* node.FromEtree(element, resultvar, errvar)
CallFromEtree ==
    /\ pc = "resolved"
    /\ Len(calls) < MaxCalls
    /\ \E element \in ElementArgs, resultvar \in ResultArgs, errvar \in ErrArgs :
         LET r == FromEtree(node, element, resultvar, errvar, variableNameCounter)
         IN /\ calls' = Append(calls, Call("FromEtree", element, resultvar, errvar, r))
            /\ variableNameCounter' = r.counter
    /\ UNCHANGED <<variable, pc, node, exitMsg, built>>

\* node.ToEtree(element, resultvar, errvar)
CallToEtree ==
    /\ pc = "resolved"
    /\ Len(calls) < MaxCalls
    /\ \E element \in ElementArgs, resultvar \in ResultArgs, errvar \in ErrArgs :
         LET r == ToEtree(node, element, resultvar, errvar, variableNameCounter)
         IN /\ calls' = Append(calls, Call("ToEtree", element, resultvar, errvar, r))
            /\ variableNameCounter' = r.counter
    /\ UNCHANGED <<variable, pc, node, exitMsg, built>>

Next == Resolve \/ ResolveExit \/ CallFromEtree \/ CallToEtree

Spec == Init /\ [][Next]_vars

(***************************************************************************)
(* Reading fragments and documents.                                        *)
(***************************************************************************)
FromEtreeCalls == {i \in 1..Len(calls) : calls[i].method = "FromEtree"}
ToEtreeCalls == {i \in 1..Len(calls) : calls[i].method = "ToEtree"}

RECURSIVE FailurePaths(_)
RECURSIVE CaseFailurePaths(_)
\* the failure paths of a fragment: which variable each assigns the error to
\* and how it leaves the function
FailurePaths(frag) ==
    IF frag = <<>> THEN {}
    ELSE LET s == Head(frag)
         IN (IF s.op \in {"extract", "find"}
             THEN {[err |-> s.err, exit |-> s.exit]} ELSE {})
            \cup FailurePaths(s.body) \cup CaseFailurePaths(s.cases)
            \cup FailurePaths(Tail(frag))

CaseFailurePaths(cs) ==
    IF cs = <<>> THEN {}
    ELSE FailurePaths(Head(cs).body) \cup CaseFailurePaths(Tail(cs))

RECURSIVE Tags(_)
RECURSIVE CaseTags(_)
\* the wire tags a fragment creates or looks up
Tags(frag) ==
    IF frag = <<>> THEN {}
    ELSE LET s == Head(frag)
         IN {s.tags[i] : i \in 1..Len(s.tags)}
            \cup Tags(s.body) \cup CaseTags(s.cases) \cup Tags(Tail(frag))

CaseTags(cs) ==
    IF cs = <<>> THEN {} ELSE Tags(Head(cs).body) \cup CaseTags(Tail(cs))

Vocabulary ==
    {"boolean", "int", "string", "struct", "member", "name", "value", "array",
     "data", "fault"}

\* the shapes the specification calls supported
RECURSIVE Supported(_)
Supported(t) ==
    CASE t.kind = "basic" ->
            t.name \in SignedKinds \cup UnsignedKinds \cup {"string", "bool"}
      [] t.kind = "named" -> t.name = "error"
      [] t.kind \in {"struct", "slice"} ->
            \A i \in 1..Len(t.elems) : Supported(t.elems[i].type)
      [] OTHER -> FALSE

RECURSIVE HasArray(_)
HasArray(t) ==
    \/ t.kind = "array"
    \/ \E i \in 1..Len(t.elems) : HasArray(t.elems[i].type)

\* an array is the only shape of t that getParam can refuse
RECURSIVE OnlyArraysRefused(_)
OnlyArraysRefused(t) ==
    CASE t.kind = "array" -> TRUE
      [] t.kind = "basic" -> t.name \in SignedKinds \cup {"string", "bool"}
      [] t.kind = "named" -> t.name = "error"
      [] t.kind \in {"struct", "slice"} ->
            \A i \in 1..Len(t.elems) : OnlyArraysRefused(t.elems[i].type)
      [] OTHER -> FALSE

\* the identifiers obtained from the allocator by all calls so far
RECURSIVE NamesOf(_)
NamesOf(cs) == IF cs = <<>> THEN <<>> ELSE Head(cs).names \o NamesOf(Tail(cs))

AllocatedNames == NamesOf(calls)

\* the node variant a supported type resolves to
NodeKindFor(t) ==
    CASE t.kind = "basic" /\ t.name \in SignedKinds \cup UnsignedKinds -> "int"
      [] t.kind = "basic" -> t.name
      [] t.kind = "named" -> "error"
      [] OTHER -> t.kind

\* the wire tag and the text a leaf value is written with
WireTag(kind) ==
    CASE kind = "bool" -> "boolean"
      [] kind = "struct" -> "struct"
      [] kind = "slice" -> "array"
      [] kind = "error" -> "fault"
      [] OTHER -> kind

WireText(kind, val) ==
    CASE kind = "bool" -> (IF val THEN "1" ELSE "0")
      [] kind = "int" -> Itoa(val)
      [] kind = "string" -> val
      [] OTHER -> ""

\* renaming of the identifiers a call obtained: the k-th one becomes $k
Renaming(names) ==
    [x \in {names[k] : k \in 1..Len(names)} |->
        "$" \o Itoa(CHOOSE k \in 1..Len(names) :
                       names[k] = x /\ \A j \in 1..(k - 1) : names[j] # x)]

Canon(x, ren) == IF x \in DOMAIN ren THEN ren[x] ELSE x

RECURSIVE CanonFrag(_, _)
RECURSIVE CanonCases(_, _)
CanonFrag(frag, ren) ==
    IF frag = <<>> THEN <<>>
    ELSE <<[Head(frag) EXCEPT !.dst = Canon(@, ren),
                              !.aux = Canon(@, ren),
                              !.src = Canon(@, ren),
                              !.err = Canon(@, ren),
                              !.text.v = IF Head(frag).text.kind = "lit" THEN @
                                         ELSE Canon(@, ren),
                              !.body = CanonFrag(@, ren),
                              !.cases = CanonCases(@, ren)]>>
         \o CanonFrag(Tail(frag), ren)

CanonCases(cs, ren) ==
    IF cs = <<>> THEN <<>>
    ELSE <<[Head(cs) EXCEPT !.body = CanonFrag(@, ren)]>>
         \o CanonCases(Tail(cs), ren)

SameCall(c, d) ==
    /\ c.method = d.method
    /\ c.element = d.element
    /\ c.resultvar = d.resultvar
    /\ c.errvar = d.errvar

(***************************************************************************)
(* Properties.                                                             *)
(***************************************************************************)

\* C1: getParam returns a Param node, and never reaches Exit, for every
\* shape of the supported variant set: signed and unsigned integers of
\* every width, string, boolean, structure and list of supported shapes,
\* failure marker.
SupportedShapesResolve ==
    (pc # "start" /\ Supported(variable.type)) =>
        (pc = "resolved" /\ node # NoNode)

\* C2: every failure path of every decode fragment, the spliced child
\* fragments and the member checks of a structure included, assigns the
\* error to the errvar the caller passed and then returns.
FailurePathsAssignErrvar ==
    \A i \in FromEtreeCalls :
        \A f \in FailurePaths(calls[i].frag) :
            f.err = calls[i].errvar /\ f.exit = "return"

\* C3: every wire tag an emitted fragment creates or looks up belongs to
\* the vocabulary boolean, int, string, struct, member, name, value, array,
\* data, fault.
TagsInVocabulary ==
    \A i \in 1..Len(calls) : Tags(calls[i].frag) \subseteq Vocabulary

\* C4: no two identifiers obtained from GenerateVariableName during the
\* FromEtree and ToEtree calls on a tree are equal, with or without prefix.
ScratchNamesUnique ==
    LET names == AllocatedNames
    IN \A i, j \in 1..Len(names) : i # j => names[i] # names[j]

ScratchNamesWitness ==
    /\ Len(calls) = 2
    /\ calls[1].method = "FromEtree"
    /\ calls[2].method = "ToEtree"
    /\ node.kind = "struct"
    /\ Len(node.params) = 1
    /\ node.params[1].kind = "slice"
    /\ node.params[1].object.kind = "string"
    /\ Len(AllocatedNames) = 14
    /\ "var_4" \in {AllocatedNames[i] : i \in 1..Len(AllocatedNames)}
    /\ "_14" \in {AllocatedNames[i] : i \in 1..Len(AllocatedNames)}

\* C5: resolving a type with a fixed-size array, at the top level or as a
\* structure field or list element, ends in Exit: no node is returned, no
\* node is built for the array and, when nothing else is refused, the
\* diagnostic is the array one.
ArrayShapeExits ==
    (pc # "start" /\ HasArray(variable.type)) =>
        /\ pc = "exited"
        /\ node = NoNode
        /\ calls = <<>>
        /\ \A i \in 1..Len(built) : built[i] # "array"
        /\ OnlyArraysRefused(variable.type) => exitMsg = "array"

ArrayShapeWitness ==
    /\ pc = "exited"
    /\ exitMsg = "array"
    /\ variable.type.kind = "struct"
    /\ Len(variable.type.elems) = 1
    /\ variable.type.elems[1].type.kind = "array"
    /\ built = <<"struct">>

\* C6: a structure node holds one child per field, child i built from
\* field i in declaration order, and its encode fragment creates the
\* members in that order, each a name text followed by the encoded value
\* of that child's field.  (The failure node is always named "err".)
MemberIsField(doc, m, p, val) ==
    LET kids == Children(doc, m)
    IN /\ doc[m].tag = "member"
       /\ Len(kids) = 2
       /\ doc[kids[1]].tag = "name"
       /\ doc[kids[1]].text = Name(p)
       /\ doc[kids[2]].tag = "value"
       /\ LET enc == Children(doc, kids[2])
          IN /\ Len(enc) = 1
             /\ doc[enc[1]].tag = WireTag(p.kind)
             /\ doc[enc[1]].text = WireText(p.kind, val[Name(p)])

ErrorValues ==
    [hasCode : BOOLEAN, code : {0, 404, 500}, text : {"not found", ""}]

FaultMember(doc, m, name, tag, text) ==
    LET kids == Children(doc, m)
    IN /\ doc[m].tag = "member"
       /\ Len(kids) = 2
       /\ doc[kids[1]].tag = "name"
       /\ doc[kids[1]].text = name
       /\ doc[kids[2]].tag = "value"
       /\ LET enc == Children(doc, kids[2])
          IN /\ Len(enc) = 1
             /\ doc[enc[1]].tag = tag
             /\ doc[enc[1]].text = text

FaultEnvelope ==
    (pc = "resolved" /\ node.kind = "error") =>
        /\ \A c \in FromEtreeCalls : calls[c].frag = <<>>
        /\ \A c \in ToEtreeCalls, ev \in ErrorValues :
             LET run == Run(calls[c], ev)
                 doc == run.doc
                 top == Children(doc, 0)
                 structs == FindElements(doc, 0, <<"fault", "value", "struct">>)
             IN /\ run.ok
                /\ Len(top) = 1
                /\ doc[top[1]].tag = "fault"
                /\ Len(Children(doc, top[1])) = 1
                /\ Len(structs) = 1
                /\ Len(doc) = 11
                /\ LET members == Children(doc, structs[1])
                   IN /\ Len(members) = 2
                      /\ FaultMember(doc, members[1], "faultCode", "int",
                            Itoa(IF ev.hasCode THEN ev.code ELSE 500))
                      /\ FaultMember(doc, members[2], "faultString", "string",
                            ev.text)

FaultWitness ==
    /\ pc = "resolved"
    /\ node.kind = "error"
    /\ FromEtreeCalls # {}
    /\ ToEtreeCalls # {}

\* C8: two calls of FromEtree, or of ToEtree, on the same node with the
\* same arguments give fragments that are equal up to the renaming of the
\* identifiers obtained from GenerateVariableName, and no call changes the
\* node or its descendants.
FragmentsAgree ==
    \A i, j \in 1..Len(calls) :
        (i < j /\ SameCall(calls[i], calls[j])) =>
            CanonFrag(calls[i].frag, Renaming(calls[i].names))
                = CanonFrag(calls[j].frag, Renaming(calls[j].names))

EmissionIdempotent ==
    /\ []FragmentsAgree
    /\ [][pc = "resolved" => node' = node]_vars

IdempotentWitness ==
    /\ Len(calls) = 2
    /\ SameCall(calls[1], calls[2])
    /\ node.kind = "slice"
    /\ node.object.kind = "struct"
    /\ Len(node.object.params) = 1
    /\ calls[1].names # <<>>
    /\ calls[1].frag # calls[2].frag

\* C9: the decode fragment of a list node declares resultvar with the list
\* node's own type label Type(), an empty sequence of the element type.
SliceResultDeclaredAsType ==
    (pc = "resolved" /\ node.kind = "slice") =>
        \A c \in FromEtreeCalls :
            LET s == calls[c].frag[1]
            IN /\ s.op = "compose"
               /\ s.dst = calls[c].resultvar
               /\ s.lit = Type(node)

\* C10: run on the element a structure node's encode fragment wrote into,
\* the node's decode fragment visits one member per field and assigns every
\* field.
VisitedMembers(d, doc) == FindElements(doc, 0, d.frag[2].tags)

AssignedFields(d, doc) ==
    LET members == VisitedMembers(d, doc)
        switch == d.frag[2].body[6]
    IN {switch.cases[k].label : k \in
          {k \in 1..Len(switch.cases) :
             \E m \in 1..Len(members) :
                LET names == FindElements(doc, members[m], <<"name">>)
                    values == FindElements(doc, members[m], <<"value">>)
                IN /\ names # <<>>
                   /\ values # <<>>
                   /\ doc[names[1]].text = switch.cases[k].label}}

StructRoundTrip ==
    (pc = "resolved" /\ node.kind = "struct" /\ node.params # <<>>) =>
        \A e \in ToEtreeCalls, d \in FromEtreeCalls, seed \in Seeds :
            LET doc == Encode(calls[e], SampleValue(node, seed))
            IN /\ Len(VisitedMembers(calls[d], doc)) = Len(node.params)
               /\ AssignedFields(calls[d], doc)
                    = {Name(node.params[i]) : i \in 1..Len(node.params)}
====
